---- MODULE Spec2Model ----
(***************************************************************************)
(* Pumpkin: the connection-dispatch core in pumpkin/src/main.rs.           *)
(*                                                                         *)
(* The reactor (the loop of main, lines 107-177) is modelled as a          *)
(* sequential process whose position is pc.  Beside it run the kernel      *)
(* (connections arriving on the listening socket, sockets becoming ready)  *)
(* and the console thread (lines 90-101).  The startup of main (lines      *)
(* 37-106) and the remote-administration task (lines 102-106) are part of  *)
(* the specifications StartSpec and AuxSpec.                               *)
(***************************************************************************)
EXTENDS Naturals, Sequences, FiniteSets

\* ------------------------------------------------------------- bounds ---

\* Connections that ever arrive on the listening socket in one run.
MaxConns == 2

\* read_line calls of the console thread in one run.
MaxReads == 3

\* Largest RLIMIT_NOFILE value the process can start with.
MaxLimit == 2

\* ---------------------------------------------------- program constants -

\* const SERVER: Token = Token(0)
SERVER == 0

\* Events::with_capacity(128)
EventsCapacity == 128

\* The listening address assembled from the basic configuration.
addr == "0.0.0.0:25565"

\* Remote addresses a connecting peer can have (the kernel reports one per
\* accepted connection); none of them is the listening address.
PeerAddrs == {"10.0.0.7:40001", "10.0.0.8:40002"}

\* Lines an operator can type; read_line keeps the line terminator, and the
\* last line of a closed stream may lack it.
Lines == {"stop\n", "say hi"}

VARIABLES
    pc,             \* position of main: in its startup, then in its loop
    result,         \* "running", the io::Error main returned, or "panicked"
    outcome,        \* what the reactor's last step observed
    unique_token,   \* let mut unique_token = Token(SERVER.0 + 1)
    connections,    \* HashMap<Token, Rc<RefCell<Client>>>
    server_clients, \* the tokens the Server Context holds (add/remove_client)
    registered,     \* poll.registry(): token -> interests
    events,         \* the batch the last poll returned
    idx,            \* position of `for event in events.iter()`
    cur,            \* locals of the accept cycle / the torn-down client
    backlog,        \* peers queued on the listening socket, oldest first
    pending,        \* tokens the kernel holds a readiness notification for
    arrivals,       \* connections that have arrived so far
    accepted,       \* history: peer address of each minted token
    drain,          \* history: the listener drain in progress
    handled,        \* history: tokens of this batch whose handling completed
    torn,           \* history: tokens whose teardown has completed
    cpc,            \* position of the console thread
    stdin,          \* the read results standard input will still produce
    out,            \* let mut out = String::new(), filled by read_line
    lines_read,     \* history: the lines read_line returned
    forwarded,      \* history: the handle_command calls, in order
    borrows,        \* tokens whose session cell is mutably borrowed (RefMut)
    in_flight,      \* history: tokens whose Client::poll has not returned
    closed_sockets, \* history: connections whose socket has been closed
    use_console,    \* advanced_configuration.commands.use_console
    rcon_enabled,   \* advanced_configuration.rcon.enabled
    rcon,           \* the remote-administration task: off, running, failed
    rlimit,         \* RLIMIT_NOFILE of the process: rlim_cur, rlim_max
    limit_before,   \* the soft limit adjust_file_descriptor_limits found
    calls           \* history: runs of the limit adjustment, starts of the
                    \* console thread and of the remote-administration task

reactorVars == <<pc, result, outcome, unique_token, connections, server_clients,
                 registered, events, idx, cur>>
kernelVars  == <<backlog, pending, arrivals>>
historyVars == <<accepted, drain, handled, torn>>
consoleVars == <<cpc, stdin, out, lines_read, forwarded>>
cellVars == <<borrows, in_flight, closed_sockets>>
mainVars == <<use_console, rcon_enabled, rcon, rlimit, limit_before, calls>>
vars == <<reactorVars, kernelVars, historyVars, consoleVars, cellVars, mainVars>>

\* ------------------------------------------------------------ helpers ---

NoCur ==
    [token |-> SERVER, connection |-> 0, address |-> "", nodelay |-> TRUE,
     closed |-> FALSE]
NoDrain == [active |-> FALSE, start |-> 0, arrived |-> 0, count |-> 0]

\* HashMap::insert: the entry for k is v afterwards, whatever it was before.
MapInsert(m, k, v) == [x \in DOMAIN m \cup {k} |-> IF x = k THEN v ELSE m[x]]

\* HashMap::remove.
MapRemove(m, k) == [x \in DOMAIN m \ {k} |-> m[x]]

\* The orders in which a set of ready tokens can appear in a batch.
Orders(S) ==
    {f \in [1..Cardinality(S) -> S] : \A i, j \in DOMAIN f : i # j => f[i] # f[j]}

\* Mutant of next: the counter is not advanced.
next_stuck(current) == [token |-> current, current |-> current]

\* Mutant of next: the counter is advanced by two.
next_skipping(current) == [token |-> current, current |-> current + 2]

\* fn next(current: &mut Token) -> Token:  the token returned and the new
\* value of the counter.
next(current) == [token |-> current, current |-> current + 1]

\* Client::new(rc_token, connection, addr): the session the accept cycle
\* builds.  The third argument is the address the session keeps.
ClientNew(token, connection, address) ==
    [token |-> token, connection |-> connection, address |-> address,
     closed |-> FALSE]

\* Server::add_client / Server::remove_client on the context's client index.
add_client(clients, token) == clients \cup {token}
remove_client(clients, token) == clients \ {token}

\* Client::poll(&mut server, event): one readiness event is processed; the
\* session may close itself, and a closed session stays closed.
client_poll(client, closes) == [client EXCEPT !.closed = @ \/ closes]

\* What one read_line call can produce: a line, end of input, or an error.
ReadResults ==
    {[kind |-> "line", text |-> l] : l \in Lines}
        \cup {[kind |-> "eof", text |-> ""], [kind |-> "err", text |-> ""]}

\* The scripts of read results of length at most n.
Scripts(n) == UNION {[1..k -> ReadResults] : k \in 0..n}

\* The token of the event the for loop is at.
Tok == events[idx]

\* RefCell::borrow_mut on the cell of token t, given the cells that hold a
\* live RefMut: it panics when the cell is already borrowed.
borrow_mut(cells, t) ==
    IF t \in cells
    THEN [panic |-> TRUE, cells |-> cells]
    ELSE [panic |-> FALSE, cells |-> cells \cup {t}]

\* ---------------------------------------------------------------- Init ---

\* The state when the reactor loop is entered: the listener is registered,
\* the counter is one past the listener token, the registry is empty.
InitReactor ==
    /\ pc = "poll"
    /\ result = "running"
    /\ outcome = "started"
    /\ unique_token = SERVER + 1
    /\ connections = <<>>
    /\ server_clients = {}
    /\ registered = [t \in {SERVER} |-> {"READABLE"}]
    /\ events = <<>>
    /\ idx = 1
    /\ cur = NoCur
    /\ backlog = <<>>
    /\ pending = {}
    /\ arrivals = 0
    /\ accepted = <<>>
    /\ drain = NoDrain
    /\ handled = <<>>
    /\ torn = {}
    /\ borrows = {}
    /\ in_flight = {}
    /\ closed_sockets = {}

\* The configuration and the auxiliary units when the loop is entered: each
\* unit has been started once if and only if its flag is set, and the
\* descriptor limit has been raised to the hard limit.
InitMain(console, remote) ==
    /\ use_console = console
    /\ rcon_enabled = remote
    /\ rcon = IF remote THEN "running" ELSE "off"
    /\ calls = [adjust |-> 1,
                console |-> IF console THEN 1 ELSE 0,
                rcon |-> IF remote THEN 1 ELSE 0]
    /\ rlimit = [rlim_cur |-> MaxLimit, rlim_max |-> MaxLimit]
    /\ limit_before = MaxLimit

Init ==
    /\ InitReactor
    /\ InitMain(FALSE, FALSE)
    /\ cpc = "off"
    /\ stdin = <<>>
    /\ out = ""
    /\ lines_read = <<>>
    /\ forwarded = <<>>

\* ------------------------------------------------------------ startup ---

\* Mutant of adjust_file_descriptor_limits: the limits are queried and
\* written back as they were.
adjust_file_descriptor_limits_unraised(limits, get_ok, set_ok) ==
    [panic |-> ~get_ok \/ ~set_ok, limits |-> limits,
     limit_before |-> IF get_ok THEN limits.rlim_cur ELSE 0]

\* fn adjust_file_descriptor_limits(): getrlimit fills limits (or the
\* function panics), rlim_cur is set to rlim_max, and setrlimit installs the
\* result (or the function panics, the process limits being unchanged).
adjust_file_descriptor_limits(limits, get_ok, set_ok) ==
    IF ~get_ok
    THEN [panic |-> TRUE, limits |-> limits, limit_before |-> 0]
    ELSE IF ~set_ok
         THEN [panic |-> TRUE, limits |-> limits,
               limit_before |-> limits.rlim_cur]
         ELSE [panic |-> FALSE,
               limits |-> [rlim_cur |-> limits.rlim_max,
                           rlim_max |-> limits.rlim_max],
               limit_before |-> limits.rlim_cur]

\* main calls adjust_file_descriptor_limits() first; a panic there ends the
\* process before anything else is set up.
AdjustLimits(get_ok, set_ok) ==
    /\ pc = "limits"
    /\ LET r == adjust_file_descriptor_limits(rlimit, get_ok, set_ok)
       IN  /\ rlimit' = r.limits
           /\ limit_before' = r.limit_before
           /\ IF r.panic
              THEN /\ pc' = "done"
                   /\ result' = "panicked"
                   /\ outcome' = "rlimit_failed"
              ELSE /\ pc' = "setup"
                   /\ UNCHANGED <<result, outcome>>
    /\ calls' = [calls EXCEPT !.adjust = @ + 1]
    /\ UNCHANGED <<unique_token, connections, server_clients, registered,
                   events, idx, cur, kernelVars, historyVars, consoleVars,
                   cellVars, use_console, rcon_enabled, rcon>>

\* The runtimes are built, the configuration loaded, the poller created,
\* the listener bound and registered for read interest under token SERVER.
SetupOk ==
    /\ pc = "setup"
    /\ registered' = [t \in {SERVER} |-> {"READABLE"}]
    /\ pc' = "spawn_console"
    /\ UNCHANGED <<result, outcome, unique_token, connections, server_clients,
                   events, idx, cur, kernelVars, historyVars, consoleVars,
                   cellVars, mainVars>>

\* Poll::new, TcpListener::bind or register fails and ? returns the error
\* from main, or one of the unwraps of the setup panics.
SetupFailed(how) ==
    /\ pc = "setup"
    /\ pc' = "done"
    /\ result' = how
    /\ outcome' = "setup_failed"
    /\ UNCHANGED <<unique_token, connections, server_clients, registered,
                   events, idx, cur, kernelVars, historyVars, consoleVars,
                   cellVars, mainVars>>

\* Mutant of SpawnConsole: the console thread is started whatever the
\* configuration says.
SpawnConsole_always ==
    /\ pc = "spawn_console"
    /\ cpc' = "read"
    /\ calls' = [calls EXCEPT !.console = @ + 1]
    /\ pc' = "spawn_rcon"
    /\ UNCHANGED <<result, outcome, unique_token, connections, server_clients,
                   registered, events, idx, cur, kernelVars, historyVars,
                   stdin, out, lines_read, forwarded, cellVars, use_console,
                   rcon_enabled, rcon, rlimit, limit_before>>

\* if use_console { thread::spawn(..) }
SpawnConsole ==
    /\ pc = "spawn_console"
    /\ IF use_console
       THEN /\ cpc' = "read"
            /\ calls' = [calls EXCEPT !.console = @ + 1]
       ELSE UNCHANGED <<cpc, calls>>
    /\ pc' = "spawn_rcon"
    /\ UNCHANGED <<result, outcome, unique_token, connections, server_clients,
                   registered, events, idx, cur, kernelVars, historyVars,
                   stdin, out, lines_read, forwarded, cellVars, use_console,
                   rcon_enabled, rcon, rlimit, limit_before>>

\* if rcon.enabled { tokio::spawn(..) }; the reactor loop is entered.
SpawnRcon ==
    /\ pc = "spawn_rcon"
    /\ IF rcon_enabled
       THEN /\ rcon' = "running"
            /\ calls' = [calls EXCEPT !.rcon = @ + 1]
       ELSE UNCHANGED <<rcon, calls>>
    /\ pc' = "poll"
    /\ UNCHANGED <<result, outcome, unique_token, connections, server_clients,
                   registered, events, idx, cur, kernelVars, historyVars,
                   consoleVars, cellVars, use_console, rcon_enabled, rlimit,
                   limit_before>>

\* Mutant of RconFailed: the panic of the task takes the process down.
RconFailed_aborts ==
    /\ rcon = "running"
    /\ rcon' = "failed"
    /\ pc' = "done"
    /\ result' = "panicked"
    /\ outcome' = "rcon_failed"
    /\ UNCHANGED <<unique_token, connections, server_clients, registered,
                   events, idx, cur, kernelVars, historyVars, consoleVars,
                   cellVars, use_console, rcon_enabled, rlimit, limit_before,
                   calls>>

\* RCONServer::new(&rcon).await returns an error and unwrap panics: the
\* panic ends the spawned task, which nothing joins.
RconFailed ==
    /\ rcon = "running"
    /\ rcon' = "failed"
    /\ UNCHANGED <<reactorVars, kernelVars, historyVars, consoleVars, cellVars,
                   use_console, rcon_enabled, rlimit, limit_before, calls>>

\* ------------------------------------------------------------- kernel ---

\* A peer connects: it joins the accept queue and the listener becomes
\* readable.  The reactor reads the queue only in accept, so arrivals at
\* other positions are the same as arrivals at the next accept or poll.
Arrive(p) ==
    /\ pc \in {"poll", "accept"}
    /\ arrivals < MaxConns
    /\ arrivals' = arrivals + 1
    /\ backlog' = Append(backlog, [id |-> arrivals + 1, peer |-> p])
    /\ pending' = pending \cup {SERVER}
    /\ drain' = IF drain.active
                THEN [drain EXCEPT !.arrived = @ + 1]
                ELSE drain
    /\ UNCHANGED <<reactorVars, accepted, handled, torn, consoleVars>>
    /\ UNCHANGED <<cellVars, mainVars>>

\* A peer connects while the accept queue is not empty: the listener was
\* readable already, so there is no readiness transition and the poller
\* queues no new notification.
ArriveQuiet(p) ==
    /\ pc = "accept"
    /\ backlog # <<>>
    /\ arrivals < MaxConns
    /\ arrivals' = arrivals + 1
    /\ backlog' = Append(backlog, [id |-> arrivals + 1, peer |-> p])
    /\ drain' = IF drain.active
                THEN [drain EXCEPT !.arrived = @ + 1]
                ELSE drain
    /\ UNCHANGED <<reactorVars, pending, accepted, handled, torn, consoleVars>>
    /\ UNCHANGED <<cellVars, mainVars>>

\* The connection the reactor has just registered is ready at once (a fresh
\* socket is writable): its notification is queued while the reactor is
\* still between register and connections.insert.
ReadyEarly ==
    /\ pc \in {"add_client", "insert"}
    /\ cur.token \notin pending
    /\ pending' = pending \cup {cur.token}
    /\ UNCHANGED <<reactorVars, backlog, arrivals, historyVars, consoleVars>>
    /\ UNCHANGED <<cellVars, mainVars>>

\* The kernel queues a readiness notification for a token: the listener, a
\* registered connection, or (late) a connection deregistered meanwhile.
Ready(t) ==
    /\ pc = "poll"
    /\ t \notin pending
    /\ pending' = pending \cup {t}
    /\ UNCHANGED <<reactorVars, backlog, arrivals, historyVars, consoleVars>>
    /\ UNCHANGED <<cellVars, mainVars>>

\* --------------------------------------------------------------- poll ---

\* poll.poll(&mut events, None) returns a batch: the pending notifications,
\* as many as the event storage holds, in an order the kernel chooses.
PollOk(batch) ==
    /\ pc = "poll"
    /\ pending # {}
    /\ events' = batch
    /\ idx' = 1
    /\ pending' = pending \ {batch[i] : i \in DOMAIN batch}
    /\ pc' = "iter"
    /\ outcome' = "polled"
    /\ handled' = <<>>
    /\ UNCHANGED <<result, unique_token, connections, server_clients, registered,
                   cur, backlog, arrivals, accepted, drain, torn, consoleVars>>
    /\ UNCHANGED <<cellVars, mainVars>>

\* The batches a poll can return in the current state.
Batches ==
    LET n == IF Cardinality(pending) < EventsCapacity
             THEN Cardinality(pending) ELSE EventsCapacity
    IN  UNION {Orders(S) : S \in {T \in SUBSET pending : Cardinality(T) = n}}

\* Mutant of PollInterrupted: the interruption is returned like any other
\* poll error.
PollInterrupted_fatal ==
    /\ pc = "poll"
    /\ pc' = "done"
    /\ result' = "poll_error"
    /\ outcome' = "interrupted"
    /\ UNCHANGED <<unique_token, connections, server_clients, registered,
                   events, idx, cur, kernelVars, historyVars, consoleVars>>
    /\ UNCHANGED <<cellVars, mainVars>>

\* poll fails and interrupted(&err): continue.
PollInterrupted ==
    /\ pc = "poll"
    /\ pc' = "poll"
    /\ outcome' = "interrupted"
    /\ UNCHANGED <<result, unique_token, connections, server_clients, registered,
                   events, idx, cur, kernelVars, historyVars, consoleVars>>
    /\ UNCHANGED <<cellVars, mainVars>>

\* poll fails with any other error: return Err(err).
PollFailed ==
    /\ pc = "poll"
    /\ pc' = "done"
    /\ result' = "poll_error"
    /\ outcome' = "poll_failed"
    /\ UNCHANGED <<unique_token, connections, server_clients, registered,
                   events, idx, cur, kernelVars, historyVars, consoleVars>>
    /\ UNCHANGED <<cellVars, mainVars>>

\* ------------------------------------------------- for event in events ---

\* The batch is exhausted: the iterator is dropped and the loop is back at
\* poll, which overwrites the event storage before anything reads it.
ForDone ==
    /\ pc = "iter"
    /\ idx > Len(events)
    /\ pc' = "poll"
    /\ events' = <<>>
    /\ idx' = 1
    /\ outcome' = "batch_done"
    /\ drain' = NoDrain
    /\ handled' = <<>>
    /\ UNCHANGED <<result, unique_token, connections, server_clients, registered,
                   cur, kernelVars, accepted, torn, consoleVars>>
    /\ UNCHANGED <<cellVars, mainVars>>

\* match event.token() { SERVER => loop { ... } }
DispatchListener ==
    /\ pc = "iter"
    /\ idx <= Len(events)
    /\ Tok = SERVER
    /\ pc' = "accept"
    /\ outcome' = "listener_event"
    /\ drain' = [active |-> TRUE, start |-> Len(backlog), arrived |-> 0,
                 count |-> 0]
    /\ UNCHANGED <<result, unique_token, connections, server_clients, registered,
                   events, idx, cur, kernelVars, accepted, handled, torn,
                   consoleVars>>
    /\ UNCHANGED <<cellVars, mainVars>>

\* ------------------------------------------------------- accept cycle ---

\* Mutant of AcceptOk: a connection whose set_nodelay fails is dropped and
\* the drain is abandoned.
AcceptOk_nodelay_break(nodelay_ok) ==
    /\ pc = "accept"
    /\ backlog # <<>>
    /\ backlog' = Tail(backlog)
    /\ outcome' = IF nodelay_ok THEN "accepted" ELSE "nodelay_failed"
    /\ IF nodelay_ok
       THEN /\ unique_token' = next(unique_token).current
            /\ cur' = [token |-> next(unique_token).token,
                       connection |-> Head(backlog).id,
                       address |-> Head(backlog).peer, nodelay |-> TRUE,
                       closed |-> FALSE]
            /\ accepted' = Append(accepted,
                                  [token |-> next(unique_token).token,
                                   connection |-> Head(backlog).id,
                                   address |-> Head(backlog).peer])
            /\ pc' = "register"
            /\ UNCHANGED <<idx, drain, handled>>
       ELSE /\ pc' = "iter"
            /\ idx' = idx + 1
            /\ drain' = [drain EXCEPT !.active = FALSE]
            /\ handled' = Append(handled, SERVER)
            /\ UNCHANGED <<unique_token, cur, accepted>>
    /\ UNCHANGED <<result, connections, server_clients, registered, events,
                   pending, arrivals, torn, consoleVars>>
    /\ UNCHANGED <<cellVars, mainVars>>

\* listener.accept() returns a connection and its peer address; set_nodelay
\* is tried and a failure only logged; next(&mut unique_token) mints the
\* token of the connection.
AcceptOk(nodelay_ok) ==
    /\ pc = "accept"
    /\ backlog # <<>>
    /\ LET n == next(unique_token)
       IN  /\ unique_token' = n.current
           /\ cur' = [token |-> n.token, connection |-> Head(backlog).id,
                      address |-> Head(backlog).peer, nodelay |-> nodelay_ok,
                      closed |-> FALSE]
           /\ accepted' = Append(accepted,
                                 [token |-> n.token,
                                  connection |-> Head(backlog).id,
                                  address |-> Head(backlog).peer])
    /\ backlog' = Tail(backlog)
    /\ pc' = "register"
    /\ outcome' = IF nodelay_ok THEN "accepted" ELSE "nodelay_failed"
    /\ UNCHANGED <<result, connections, server_clients, registered, events, idx,
                   pending, arrivals, drain, handled, torn, consoleVars>>
    /\ UNCHANGED <<cellVars, mainVars>>

\* accept reports WouldBlock: the queue is empty, break out of the drain.
AcceptWouldBlock ==
    /\ pc = "accept"
    /\ backlog = <<>>
    /\ pc' = "iter"
    /\ idx' = idx + 1
    /\ outcome' = "would_block"
    /\ drain' = [drain EXCEPT !.active = FALSE]
    /\ handled' = Append(handled, SERVER)
    /\ UNCHANGED <<result, unique_token, connections, server_clients, registered,
                   events, cur, kernelVars, accepted, torn, consoleVars>>
    /\ UNCHANGED <<cellVars, mainVars>>

\* accept fails with any other error: return Err(e).
AcceptFailed ==
    /\ pc = "accept"
    /\ pc' = "done"
    /\ result' = "accept_error"
    /\ outcome' = "accept_failed"
    /\ UNCHANGED <<unique_token, connections, server_clients, registered,
                   events, idx, cur, kernelVars, historyVars, consoleVars>>
    /\ UNCHANGED <<cellVars, mainVars>>

\* Mutant of RegisterOk: a connection whose set_nodelay failed is dropped
\* instead of being registered.
RegisterOk_nodelay_dropped ==
    /\ pc = "register"
    /\ IF cur.nodelay
       THEN /\ registered' = MapInsert(registered, cur.token,
                                       {"READABLE", "WRITABLE"})
            /\ pc' = "add_client"
            /\ outcome' = "registered"
            /\ UNCHANGED cur
       ELSE /\ pc' = "accept"
            /\ outcome' = "dropped"
            /\ cur' = NoCur
            /\ UNCHANGED registered
    /\ UNCHANGED <<result, unique_token, connections, server_clients, events, idx,
                   kernelVars, historyVars, consoleVars>>
    /\ UNCHANGED <<cellVars, mainVars>>

\* Mutant of RegisterOk: the connection is registered for read interest
\* only.
RegisterOk_readable_only ==
    /\ pc = "register"
    /\ registered' = MapInsert(registered, cur.token, {"READABLE"})
    /\ pc' = "add_client"
    /\ outcome' = "registered"
    /\ UNCHANGED <<result, unique_token, connections, server_clients, events, idx,
                   cur, kernelVars, historyVars, consoleVars>>
    /\ UNCHANGED <<cellVars, mainVars>>

\* poll.registry().register(&mut connection, token, READABLE | WRITABLE)
\* succeeds.
RegisterOk ==
    /\ pc = "register"
    /\ registered' = MapInsert(registered, cur.token, {"READABLE", "WRITABLE"})
    /\ pc' = "add_client"
    /\ outcome' = "registered"
    /\ UNCHANGED <<result, unique_token, connections, server_clients, events, idx,
                   cur, kernelVars, historyVars, consoleVars>>
    /\ UNCHANGED <<cellVars, mainVars>>

\* register fails: the ? operator returns the error from main.
RegisterFailed ==
    /\ pc = "register"
    /\ pc' = "done"
    /\ result' = "register_error"
    /\ outcome' = "register_failed"
    /\ UNCHANGED <<unique_token, connections, server_clients, registered,
                   events, idx, cur, kernelVars, historyVars, consoleVars>>
    /\ UNCHANGED <<cellVars, mainVars>>

\* Mutant of AddClient: the session is inserted into the registry without
\* the context being told of it.
AddClient_skipped ==
    /\ pc = "add_client"
    /\ pc' = "insert"
    /\ UNCHANGED <<result, outcome, unique_token, connections, server_clients,
                   registered, events, idx, cur, kernelVars, historyVars,
                   consoleVars>>
    /\ UNCHANGED <<cellVars, mainVars>>

\* server.add_client(rc_token, Rc::clone(&client))
AddClient ==
    /\ pc = "add_client"
    /\ server_clients' = add_client(server_clients, cur.token)
    /\ pc' = "insert"
    /\ UNCHANGED <<result, outcome, unique_token, connections, registered, events,
                   idx, cur, kernelVars, historyVars, consoleVars>>
    /\ UNCHANGED <<cellVars, mainVars>>

\* Mutant of Insert: one connection is accepted per listener event and the
\* for loop moves on without waiting for WouldBlock.
Insert_once ==
    /\ pc = "insert"
    /\ connections' = MapInsert(connections, cur.token,
                                ClientNew(cur.token, cur.connection, addr))
    /\ cur' = NoCur
    /\ drain' = [drain EXCEPT !.count = @ + 1, !.active = FALSE]
    /\ pc' = "iter"
    /\ idx' = idx + 1
    /\ outcome' = "inserted"
    /\ UNCHANGED <<result, unique_token, server_clients, registered, events,
                   kernelVars, accepted, handled, torn, consoleVars>>
    /\ UNCHANGED <<cellVars, mainVars>>

\* connections.insert(token, client), the client being
\* Client::new(rc_token, connection, addr); then the drain loops to accept.
Insert ==
    /\ pc = "insert"
    /\ connections' = MapInsert(connections, cur.token,
                                ClientNew(cur.token, cur.connection, addr))
    /\ cur' = NoCur
    /\ drain' = [drain EXCEPT !.count = @ + 1]
    /\ pc' = "accept"
    /\ outcome' = "inserted"
    /\ UNCHANGED <<result, unique_token, server_clients, registered, events, idx,
                   kernelVars, accepted, handled, torn, consoleVars>>
    /\ UNCHANGED <<cellVars, mainVars>>

\* ------------------------------------------------------- token branch ---

\* Mutant of RouteAbsent: an event for an unknown token is an error.
RouteAbsent_fatal ==
    /\ pc = "iter"
    /\ idx <= Len(events)
    /\ Tok # SERVER
    /\ Tok \notin DOMAIN connections
    /\ pc' = "done"
    /\ result' = "unknown_token"
    /\ outcome' = "absent"
    /\ UNCHANGED <<unique_token, connections, server_clients, registered,
                   events, idx, cur, kernelVars, historyVars, consoleVars>>
    /\ UNCHANGED <<cellVars, mainVars>>

\* connections.get_mut(&token) finds nothing: done = false, next event.
RouteAbsent ==
    /\ pc = "iter"
    /\ idx <= Len(events)
    /\ Tok # SERVER
    /\ Tok \notin DOMAIN connections
    /\ idx' = idx + 1
    /\ outcome' = "absent"
    /\ drain' = NoDrain
    /\ handled' = Append(handled, Tok)
    /\ UNCHANGED <<pc, result, unique_token, connections, server_clients,
                   registered, events, cur, kernelVars, accepted, torn,
                   consoleVars>>
    /\ UNCHANGED <<cellVars, mainVars>>

\* Mutant of RoutePresent: Client::poll is started without being awaited and
\* the for loop moves on to the next event.
RoutePresent_detached ==
    /\ pc = "iter"
    /\ idx <= Len(events)
    /\ Tok # SERVER
    /\ Tok \in DOMAIN connections
    /\ in_flight' = in_flight \cup {Tok}
    /\ pc' = "iter"
    /\ idx' = idx + 1
    /\ outcome' = "routed"
    /\ handled' = Append(handled, Tok)
    /\ drain' = NoDrain
    /\ UNCHANGED <<result, unique_token, connections, server_clients, registered,
                   events, cur, kernelVars, accepted, torn, consoleVars,
                   borrows, closed_sockets>>
    /\ UNCHANGED mainVars

\* connections.get_mut(&token) finds the session: it is borrowed mutably and
\* client.poll(&mut server, event) is entered.
RoutePresent ==
    /\ pc = "iter"
    /\ idx <= Len(events)
    /\ Tok # SERVER
    /\ Tok \in DOMAIN connections
    /\ IF borrow_mut(borrows, Tok).panic
       THEN /\ pc' = "done"
            /\ result' = "panicked"
            /\ outcome' = "already_borrowed"
            /\ UNCHANGED <<borrows, in_flight>>
       ELSE /\ pc' = "client_poll"
            /\ outcome' = "routed"
            /\ borrows' = borrow_mut(borrows, Tok).cells
            /\ in_flight' = in_flight \cup {Tok}
            /\ UNCHANGED result
    /\ drain' = NoDrain
    /\ UNCHANGED <<unique_token, connections, server_clients, registered,
                   events, idx, cur, kernelVars, accepted, handled, torn,
                   consoleVars, closed_sockets>>
    /\ UNCHANGED mainVars

\* Mutant of ClientPollReturns: the session is torn down after every event,
\* whatever its closed flag says.
ClientPollReturns_always_done(closes) ==
    /\ pc = "client_poll"
    /\ connections' = [connections EXCEPT ![Tok] = client_poll(@, closes)]
    /\ pc' = "td_remove"
    /\ idx' = idx
    /\ outcome' = "closed"
    /\ handled' = handled
    /\ borrows' = borrows \ {Tok}
    /\ in_flight' = in_flight \ {Tok}
    /\ UNCHANGED <<result, unique_token, server_clients, registered, events, cur,
                   kernelVars, accepted, drain, torn, consoleVars,
                   closed_sockets>>
    /\ UNCHANGED mainVars

\* Mutant of ClientPollReturns: the mutable borrow taken for the call is
\* still alive when the teardown begins.
ClientPollReturns_borrow_kept(closes) ==
    /\ pc = "client_poll"
    /\ connections' = [connections EXCEPT ![Tok] = client_poll(@, closes)]
    /\ IF connections'[Tok].closed
       THEN /\ pc' = "td_remove"
            /\ idx' = idx
            /\ outcome' = "closed"
            /\ handled' = handled
       ELSE /\ pc' = "iter"
            /\ idx' = idx + 1
            /\ outcome' = "processed"
            /\ handled' = Append(handled, Tok)
    /\ borrows' = borrows
    /\ in_flight' = in_flight \ {Tok}
    /\ UNCHANGED <<result, unique_token, server_clients, registered, events, cur,
                   kernelVars, accepted, drain, torn, consoleVars,
                   closed_sockets>>
    /\ UNCHANGED mainVars

\* client.poll(..).await completes, having closed the session or not; the
\* reactor reads client.closed into done and drops the borrow.
ClientPollReturns(closes) ==
    /\ pc = "client_poll"
    /\ connections' = [connections EXCEPT ![Tok] = client_poll(@, closes)]
    /\ IF connections'[Tok].closed
       THEN /\ pc' = "td_remove"
            /\ idx' = idx
            /\ outcome' = "closed"
            /\ handled' = handled
       ELSE /\ pc' = "iter"
            /\ idx' = idx + 1
            /\ outcome' = "processed"
            /\ handled' = Append(handled, Tok)
    /\ borrows' = borrows \ {Tok}
    /\ in_flight' = in_flight \ {Tok}
    /\ UNCHANGED <<result, unique_token, server_clients, registered, events, cur,
                   kernelVars, accepted, drain, torn, consoleVars,
                   closed_sockets>>
    /\ UNCHANGED mainVars

\* if let Some(client) = connections.remove(&token)
TdRemove ==
    /\ pc = "td_remove"
    /\ IF Tok \in DOMAIN connections
       THEN /\ cur' = [NoCur EXCEPT !.token = Tok,
                                    !.connection = connections[Tok].connection,
                                    !.address = connections[Tok].address,
                                    !.closed = connections[Tok].closed]
            /\ connections' = MapRemove(connections, Tok)
            /\ pc' = "td_ctx"
            /\ idx' = idx
            /\ handled' = handled
       ELSE /\ pc' = "iter"
            /\ idx' = idx + 1
            /\ handled' = Append(handled, Tok)
            /\ UNCHANGED <<cur, connections>>
    /\ UNCHANGED <<result, outcome, unique_token, server_clients, registered,
                   events, kernelVars, accepted, drain, torn, consoleVars>>
    /\ UNCHANGED <<cellVars, mainVars>>

\* Mutant of TdRemoveClient: the context is not told of the teardown.
TdRemoveClient_skipped ==
    /\ pc = "td_ctx"
    /\ pc' = "td_dereg"
    /\ UNCHANGED <<result, outcome, unique_token, connections, server_clients,
                   registered, events, idx, cur, kernelVars, historyVars,
                   consoleVars>>
    /\ UNCHANGED <<cellVars, mainVars>>

\* server.remove_client(&token)
TdRemoveClient ==
    /\ pc = "td_ctx"
    /\ server_clients' = remove_client(server_clients, Tok)
    /\ pc' = "td_dereg"
    /\ UNCHANGED <<result, outcome, unique_token, connections, registered, events,
                   idx, cur, kernelVars, historyVars, consoleVars>>
    /\ UNCHANGED <<cellVars, mainVars>>

\* Mutant of TdDeregisterOk: the socket is dropped without deregistering it.
TdDeregisterOk_forgotten ==
    /\ pc = "td_dereg"
    /\ torn' = torn \cup {Tok}
    /\ handled' = Append(handled, Tok)
    /\ cur' = NoCur
    /\ pc' = "iter"
    /\ idx' = idx + 1
    /\ outcome' = "torn_down"
    /\ closed_sockets' = closed_sockets \cup {cur.connection}
    /\ UNCHANGED <<result, unique_token, connections, server_clients, registered,
                   events, kernelVars, accepted, drain, consoleVars, borrows,
                   in_flight>>
    /\ UNCHANGED mainVars

\* The removed client is borrowed mutably again and
\* poll.registry().deregister(&mut client.connection) succeeds; the borrow
\* and the client then go out of scope, which closes the socket, and the for
\* loop moves on.
TdDeregisterOk ==
    /\ pc = "td_dereg"
    /\ IF borrow_mut(borrows, Tok).panic
       THEN /\ pc' = "done"
            /\ result' = "panicked"
            /\ outcome' = "already_borrowed"
            /\ UNCHANGED <<registered, torn, handled, cur, idx, closed_sockets>>
       ELSE /\ registered' = MapRemove(registered, Tok)
            /\ torn' = torn \cup {Tok}
            /\ handled' = Append(handled, Tok)
            /\ closed_sockets' = closed_sockets \cup {cur.connection}
            /\ cur' = NoCur
            /\ pc' = "iter"
            /\ idx' = idx + 1
            /\ outcome' = "torn_down"
            /\ UNCHANGED result
    /\ UNCHANGED <<unique_token, connections, server_clients, events,
                   kernelVars, accepted, drain, consoleVars, borrows,
                   in_flight>>
    /\ UNCHANGED mainVars

\* deregister fails: the ? operator returns the error from main.
TdDeregisterFailed ==
    /\ pc = "td_dereg"
    /\ ~borrow_mut(borrows, Tok).panic
    /\ pc' = "done"
    /\ result' = "deregister_error"
    /\ outcome' = "deregister_failed"
    /\ UNCHANGED <<unique_token, connections, server_clients, registered,
                   events, idx, cur, kernelVars, historyVars, consoleVars>>
    /\ UNCHANGED <<cellVars, mainVars>>

\* ----------------------------------------------------- console thread ---

\* read_line(&mut out) returns a line: out holds it, terminator included.
ConsoleReadLine ==
    /\ cpc = "read"
    /\ stdin # <<>>
    /\ Head(stdin).kind = "line"
    /\ out' = Head(stdin).text
    /\ lines_read' = Append(lines_read, Head(stdin).text)
    /\ stdin' = Tail(stdin)
    /\ cpc' = "handle"
    /\ UNCHANGED <<forwarded, reactorVars, kernelVars, historyVars>>
    /\ UNCHANGED <<cellVars, mainVars>>

\* read_line(&mut out) returns Ok(0) at end of input: out stays the empty
\* string it was created as, and expect lets the Ok through.
ConsoleReadEof ==
    /\ cpc = "read"
    /\ stdin # <<>>
    /\ Head(stdin).kind = "eof"
    /\ out' = ""
    /\ stdin' = Tail(stdin)
    /\ cpc' = "handle"
    /\ UNCHANGED <<lines_read, forwarded, reactorVars, kernelVars, historyVars>>
    /\ UNCHANGED <<cellVars, mainVars>>

\* read_line fails: expect("Failed to read console line") panics the thread.
ConsoleReadFailed ==
    /\ cpc = "read"
    /\ stdin # <<>>
    /\ Head(stdin).kind = "err"
    /\ stdin' = Tail(stdin)
    /\ cpc' = "panicked"
    /\ UNCHANGED <<out, lines_read, forwarded, reactorVars, kernelVars,
                   historyVars>>
    /\ UNCHANGED <<cellVars, mainVars>>

\* handle_command(&mut CommandSender::Console, &out), then the loop repeats.
ConsoleHandle ==
    /\ cpc = "handle"
    /\ forwarded' = Append(forwarded, [sender |-> "Console", command |-> out])
    /\ cpc' = "read"
    /\ UNCHANGED <<stdin, out, lines_read, reactorVars, kernelVars, historyVars>>
    /\ UNCHANGED <<cellVars, mainVars>>

\* ------------------------------------------------------ specification ---

Next ==
    \/ \E p \in PeerAddrs : Arrive(p)
    \/ \E p \in PeerAddrs : ArriveQuiet(p)
    \/ \E t \in 0..(unique_token - 1) : Ready(t)
    \/ ReadyEarly
    \/ \E batch \in Batches : PollOk(batch)
    \/ PollInterrupted
    \/ PollFailed
    \/ ForDone
    \/ DispatchListener
    \/ \E ok \in BOOLEAN : AcceptOk(ok)
    \/ AcceptWouldBlock
    \/ AcceptFailed
    \/ RegisterOk
    \/ RegisterFailed
    \/ AddClient
    \/ Insert
    \/ RouteAbsent
    \/ RoutePresent
    \/ \E closes \in BOOLEAN : ClientPollReturns(closes)
    \/ TdRemove
    \/ TdRemoveClient
    \/ TdDeregisterOk
    \/ TdDeregisterFailed

Spec == Init /\ [][Next]_vars

\* The reactor's steps that are not failures of a system call.
Progress ==
    \/ ForDone
    \/ DispatchListener
    \/ \E ok \in BOOLEAN : AcceptOk(ok)
    \/ AcceptWouldBlock
    \/ RegisterOk
    \/ AddClient
    \/ Insert
    \/ RouteAbsent
    \/ RoutePresent
    \/ \E closes \in BOOLEAN : ClientPollReturns(closes)
    \/ TdRemove
    \/ TdRemoveClient
    \/ TdDeregisterOk

\* The reactor thread keeps running: a system call or an awaited
\* Client::poll returns, and a poll with notifications pending is not
\* interrupted for ever.  Failures stay possible at every call.
FairSpec ==
    /\ Spec
    /\ WF_vars(Progress)
    /\ WF_vars(\E batch \in Batches : PollOk(batch))

\* The console thread alone, spawned because use_console is set, against
\* every script of read results standard input can produce.
InitConsole ==
    /\ InitReactor
    /\ InitMain(TRUE, FALSE)
    /\ cpc = "read"
    /\ stdin \in Scripts(MaxReads)
    /\ out = ""
    /\ lines_read = <<>>
    /\ forwarded = <<>>

ConsoleNext ==
    \/ ConsoleReadLine
    \/ ConsoleReadEof
    \/ ConsoleReadFailed
    \/ ConsoleHandle

ConsoleSpec == InitConsole /\ [][ConsoleNext]_vars

\* The process is alive: main has neither returned nor panicked.
Alive == pc # "done"

\* What standard input yields in the runs with both auxiliary units: a
\* line, then end of input, then a read error.
AuxScript ==
    <<[kind |-> "line", text |-> "say hi"], [kind |-> "eof", text |-> ""],
      [kind |-> "err", text |-> ""]>>

\* The reactor together with the console thread and the
\* remote-administration task, both enabled and started.
InitAux ==
    /\ InitReactor
    /\ InitMain(TRUE, TRUE)
    /\ cpc = "read"
    /\ stdin = AuxScript
    /\ out = ""
    /\ lines_read = <<>>
    /\ forwarded = <<>>

AuxNext ==
    \/ Next
    \/ Alive /\ ConsoleNext
    \/ Alive /\ RconFailed

AuxSpec == InitAux /\ [][AuxNext]_vars

\* The limits a process can start with: the soft limit is at most the hard
\* limit.
Limits ==
    {l \in [rlim_cur : 0..MaxLimit, rlim_max : 0..MaxLimit] :
        l.rlim_cur <= l.rlim_max}

\* The process at the entry of main: nothing is set up, the configuration
\* and the limits are any, and no peer connects.
InitStart ==
    /\ pc = "limits"
    /\ result = "running"
    /\ outcome = "started"
    /\ unique_token = SERVER + 1
    /\ connections = <<>>
    /\ server_clients = {}
    /\ registered = <<>>
    /\ events = <<>>
    /\ idx = 1
    /\ cur = NoCur
    /\ backlog = <<>>
    /\ pending = {}
    /\ arrivals = 0
    /\ accepted = <<>>
    /\ drain = NoDrain
    /\ handled = <<>>
    /\ torn = {}
    /\ borrows = {}
    /\ in_flight = {}
    /\ closed_sockets = {}
    /\ use_console \in BOOLEAN
    /\ rcon_enabled \in BOOLEAN
    /\ rcon = "off"
    /\ rlimit \in Limits
    /\ limit_before = 0
    /\ calls = [adjust |-> 0, console |-> 0, rcon |-> 0]
    /\ cpc = "off"
    /\ stdin \in Scripts(MaxReads)
    /\ out = ""
    /\ lines_read = <<>>
    /\ forwarded = <<>>

\* Startup, the auxiliary units and the reactor loop of a server no peer
\* connects to.
StartNext ==
    \/ \E get_ok, set_ok \in BOOLEAN : AdjustLimits(get_ok, set_ok)
    \/ SetupOk
    \/ \E how \in {"setup_error", "panicked"} : SetupFailed(how)
    \/ SpawnConsole
    \/ SpawnRcon
    \/ Alive /\ ConsoleNext
    \/ Alive /\ RconFailed
    \/ Ready(SERVER)
    \/ \E batch \in Batches : PollOk(batch)
    \/ PollInterrupted
    \/ PollFailed
    \/ ForDone
    \/ DispatchListener
    \/ AcceptWouldBlock
    \/ AcceptFailed

StartSpec == InitStart /\ [][StartNext]_vars

\* ------------------------------------------------------------- claims ---

\* Positions inside one accept / register / add_client / insert cycle.
DrainPcs == {"accept", "register", "add_client", "insert"}

\* Positions inside the teardown of the session of the current event.
TeardownPcs == {"td_remove", "td_ctx", "td_dereg"}

\* The tokens minted so far, in accept order.
Minted == [i \in DOMAIN accepted |-> accepted[i].token]

\* C1: each time the reactor is about to call poll, the tokens that are keys
\* of the Connection Registry are exactly the tokens the Server Context was
\* given by add_client and not yet taken away by remove_client.
C1_RegistryEqualsContext ==
    pc = "poll" => DOMAIN connections = server_clients

\* C1 witness: about to poll after two accepts and one teardown, one
\* session live in both the registry and the context.
C1_Witness ==
    /\ pc = "poll"
    /\ Len(accepted) = 2
    /\ torn # {}
    /\ server_clients # {}
    /\ DOMAIN connections = server_clients

\* C2: the tokens minted for the accepted connections are pairwise distinct,
\* strictly increasing in accept order and greater than the listener token;
\* no client token is the listener token, and a token in the registry
\* belongs to exactly one accepted connection, the one its entry holds.
C2_TokensUnique ==
    /\ \A i \in DOMAIN Minted : Minted[i] > SERVER
    /\ \A i, j \in DOMAIN Minted : i < j => Minted[i] < Minted[j]
    /\ \A i, j \in DOMAIN Minted : Minted[i] = Minted[j] => i = j
    /\ SERVER \notin DOMAIN connections
    /\ \A i \in DOMAIN Minted : Minted[i] < unique_token
    /\ \A t \in DOMAIN connections :
          /\ Cardinality({i \in DOMAIN accepted : accepted[i].token = t}) = 1
          /\ \A i \in DOMAIN accepted :
                accepted[i].token = t
                    => connections[t].connection = accepted[i].connection

\* C2 witness: two connections accepted, both live in the registry.
C2_Witness ==
    /\ Len(accepted) = 2
    /\ Cardinality(DOMAIN connections) = 2

\* C3: a listener event is handled by a drain that ends only when accept
\* reports would-block.  While the drain runs the reactor is inside an
\* accept cycle; when the for loop is at the event after a listener event,
\* the accept queue is empty and the drain made exactly as many cycles as
\* connections were queued when it began plus those that arrived during it
\* (exactly K when K were queued and none arrived meanwhile).
C3_DrainComplete ==
    /\ drain.active => pc \in DrainPcs \cup {"done"}
    /\ (drain.active /\ pc = "accept")
          => drain.count + Len(backlog) = drain.start + drain.arrived
    /\ (pc = "iter" /\ idx > 1 /\ events[idx - 1] = SERVER)
          => /\ ~drain.active
             /\ backlog = <<>>
             /\ drain.count = drain.start + drain.arrived
             /\ outcome = "would_block"

\* C3 witness: two connections were queued at the listener event, none
\* arrived during the drain, and the drain has just ended after two cycles.
C3_Witness ==
    /\ pc = "iter"
    /\ idx > 1
    /\ events[idx - 1] = SERVER
    /\ drain.start = 2
    /\ drain.arrived = 0
    /\ drain.count = 2
    /\ Cardinality(DOMAIN connections) = 2

\* The reactor takes a step (the kernel and the console do not move pc,
\* idx or outcome).
ReactorMoves == <<pc, idx, outcome>>' # <<pc, idx, outcome>>

\* C4 (state part): the teardown of a closed session removes its token from
\* the registry, then from the context, then from the poller, in that
\* order; once the teardown is complete the token is in none of the three,
\* and Client::poll is never entered for it again.
C4_TeardownState ==
    /\ pc = "td_remove"
          => /\ Tok \in DOMAIN connections
             /\ connections[Tok].closed
             /\ Tok \in server_clients
             /\ Tok \in DOMAIN registered
    /\ pc = "td_ctx"
          => /\ Tok \notin DOMAIN connections
             /\ Tok \in server_clients
             /\ Tok \in DOMAIN registered
    /\ pc = "td_dereg"
          => /\ Tok \notin DOMAIN connections
             /\ Tok \notin server_clients
             /\ Tok \in DOMAIN registered
    /\ \A t \in torn :
          /\ t \notin DOMAIN connections
          /\ t \notin server_clients
          /\ t \notin DOMAIN registered
    /\ pc \in {"client_poll"} \cup TeardownPcs => Tok \notin torn

\* C4 (step part): the reactor's step at an event whose token was torn
\* down moves to the next event and changes nothing else, without error.
C4_LateEventStep ==
    (pc = "iter" /\ idx <= Len(events) /\ Tok \in torn /\ ReactorMoves)
        => /\ pc' = "iter"
           /\ idx' = idx + 1
           /\ result' = "running"
           /\ UNCHANGED <<unique_token, connections, server_clients, registered,
                          cur, kernelVars, torn>>

\* C4: when an event leaves a session closed, its token is removed from the
\* registry, then from the Server Context, then its socket is deregistered;
\* afterwards the token is absent from all three, and a later event that
\* carries it is ignored: Client::poll is not entered, nothing changes.
C4_TeardownOrderAndLateEvent ==
    []C4_TeardownState /\ [][C4_LateEventStep]_vars

\* C4 witness: a late event for a torn-down token has just been ignored.
C4_Witness ==
    /\ pc = "iter"
    /\ idx > 1
    /\ events[idx - 1] \in torn
    /\ outcome = "absent"
    /\ result = "running"

\* C5 (state part): after an interrupted poll the reactor is at poll again
\* and main has not returned.
C5_InterruptedState ==
    outcome = "interrupted" => pc = "poll" /\ result = "running"

\* C5 (step part): the step that handles the interruption processes no
\* event and leaves every pending notification pending.
C5_InterruptedStep ==
    (pc = "poll" /\ outcome' = "interrupted" /\ ReactorMoves)
        => /\ pc' = "poll"
           /\ result' = "running"
           /\ UNCHANGED <<unique_token, connections, server_clients, registered,
                          events, idx, cur, kernelVars, historyVars>>

\* C5 (delivery part): a notification pending when a poll is interrupted is
\* handled later, unless main returns a fatal error first.
C5_PendingDelivered ==
    \A t \in 0..(MaxConns + 1) :
        (outcome = "interrupted" /\ t \in pending)
            ~> (pc = "done" \/ \E k \in DOMAIN handled : handled[k] = t)

\* C5: an interrupted poll never ends the loop with an error; the loop
\* retries poll without processing any event, and every notification that
\* was pending at the interruption is delivered by a later poll and handled.
C5_InterruptedPollResilience ==
    /\ []C5_InterruptedState
    /\ [][C5_InterruptedStep]_vars
    /\ C5_PendingDelivered

\* C5 witness: a poll has just been interrupted while notifications for
\* the listener (with a connection queued) and for a live session are
\* pending.
C5_Witness ==
    /\ outcome = "interrupted"
    /\ SERVER \in pending
    /\ backlog # <<>>
    /\ \E t \in pending : t \in DOMAIN connections

\* The tokens of the accepted connections that have not been torn down.
Live == {Minted[i] : i \in DOMAIN Minted} \ torn

\* C6: the registry holds exactly one entry per accepted connection that
\* has not been torn down: an entry appears with the insert that ends the
\* accept cycle of its connection, the insert never overwrites an entry,
\* and an entry is removed only by the teardown, with its closed flag true.
C6_RegistryLifecycle ==
    /\ pc \in {"poll", "iter", "accept", "client_poll", "td_remove"}
          => DOMAIN connections = Live
    /\ pc \in {"register", "add_client", "insert"}
          => /\ cur.token \notin DOMAIN connections
             /\ DOMAIN connections = Live \ {cur.token}
    /\ pc \in {"td_ctx", "td_dereg"}
          => /\ cur.token = Tok
             /\ cur.closed
             /\ DOMAIN connections = Live \ {Tok}
    /\ \A t \in DOMAIN connections :
          /\ connections[t].token = t
          /\ connections[t].closed => (pc = "td_remove" /\ Tok = t)

\* C6 witness: two connections were accepted, the session of one was
\* closed and removed, and the registry holds the other.
C6_Witness ==
    /\ pc = "iter"
    /\ Len(accepted) = 2
    /\ Cardinality(torn) = 1
    /\ Cardinality(DOMAIN connections) = 1
    /\ outcome = "torn_down"

\* The outcomes on which main returns an error, and the error of each.
FatalOutcomes ==
    {"poll_failed", "accept_failed", "register_failed", "deregister_failed"}

ErrorOf(o) ==
    CASE o = "poll_failed" -> "poll_error"
      [] o = "accept_failed" -> "accept_error"
      [] o = "register_failed" -> "register_error"
      [] o = "deregister_failed" -> "deregister_error"
      [] OTHER -> "running"

\* C7: the reactor loop ends only by returning a fatal error: a poll
\* failure other than interruption, an accept error other than would-block,
\* or a register/deregister failure, each of which ends it with that error;
\* it does not end on an interrupted poll, a would-block accept, an event
\* for an absent token, a set_nodelay failure or a closed session.
C7_FatalOnly ==
    /\ (pc = "done") <=> (outcome \in FatalOutcomes)
    /\ (pc = "done") <=> (result # "running")
    /\ result = ErrorOf(outcome)
    /\ outcome \in {"interrupted", "would_block", "absent", "nodelay_failed",
                    "closed", "torn_down"}
          => pc # "done" /\ result = "running"

\* C7 witness: main has returned the error of a failed deregister, after a
\* session was accepted and reported itself closed.
C7_Witness ==
    /\ pc = "done"
    /\ result = "deregister_error"
    /\ Len(accepted) >= 1

\* C8: every session in the registry carries as its address the peer
\* address returned by the accept call that produced its connection.
C8_SessionAddressIsPeer ==
    \A t \in DOMAIN connections :
        \A i \in DOMAIN accepted :
            accepted[i].token = t => connections[t].address = accepted[i].address

\* C9 (as claimed): while a session's event is processed, the listener
\* event of the same batch, wherever it stands in the batch, has already
\* been drained.
C9_ListenerFirstAnyPosition ==
    pc \in {"client_poll"} \cup TeardownPcs
        => \A j \in DOMAIN events :
              events[j] = SERVER => \E k \in DOMAIN handled : handled[k] = SERVER

\* C9 (amended): the events of a batch are handled one after the other in
\* batch order, so the listener drain is complete before any event that
\* follows the listener event in the batch is processed, and the events
\* that precede it are handled before the drain begins.
C9_BatchOrder ==
    /\ pc \notin {"poll", "done"} => handled = SubSeq(events, 1, idx - 1)
    /\ pc \in {"client_poll"} \cup TeardownPcs
          => \A j \in 1..(idx - 1) :
                events[j] = SERVER => \E k \in DOMAIN handled : handled[k] = SERVER
    /\ pc \in DrainPcs
          => \A j \in (idx + 1)..Len(events) :
                \A k \in DOMAIN handled : handled[k] # events[j]

\* C9 witness: a session's event is being processed after the listener
\* event of the same batch was drained and accepted a second connection.
C9_Witness ==
    /\ pc = "client_poll"
    /\ idx = 2
    /\ events[1] = SERVER
    /\ handled = <<SERVER>>
    /\ Cardinality(DOMAIN connections) = 2

\* C10: between two reads of the console thread, the handle_command calls
\* made so far are exactly the lines read, in order, one call per line,
\* each with sender Console and the line as read.
C10_ForwardedAreLinesRead ==
    cpc \in {"read", "panicked"}
        => forwarded = [i \in DOMAIN lines_read |->
                            [sender |-> "Console", command |-> lines_read[i]]]

\* C12 (state part): whatever set_nodelay returned, the accepted connection
\* holds the token just minted when it is registered, is registered for both
\* interests when it is added to the context, and is in the context when it
\* is inserted.
C12_NoDelayState ==
    /\ outcome = "nodelay_failed"
          => pc = "register" /\ ~cur.nodelay /\ cur.token = unique_token - 1
    /\ pc = "add_client"
          => /\ cur.token \in DOMAIN registered
             /\ registered[cur.token] = {"READABLE", "WRITABLE"}
    /\ pc = "insert"
          => /\ cur.token \in DOMAIN registered
             /\ cur.token \in server_clients

\* C12 (step part): the steps of the accept cycle of a connection whose
\* set_nodelay failed are those of any connection: register (which may fail
\* as for any connection), add_client, insert, back to accept.
C12_NoDelayStep ==
    (pc \in {"register", "add_client", "insert"} /\ ~cur.nodelay /\ ReactorMoves)
        => \/ /\ pc = "register"
              /\ pc' = "add_client"
              /\ registered' = MapInsert(registered, cur.token,
                                         {"READABLE", "WRITABLE"})
              /\ UNCHANGED <<cur, connections, server_clients, unique_token>>
           \/ /\ pc = "register"
              /\ pc' = "done"
              /\ result' = "register_error"
           \/ /\ pc = "add_client"
              /\ pc' = "insert"
              /\ server_clients' = server_clients \cup {cur.token}
              /\ UNCHANGED <<cur, connections, registered, unique_token>>
           \/ /\ pc = "insert"
              /\ pc' = "accept"
              /\ connections' = MapInsert(connections, cur.token,
                                          ClientNew(cur.token, cur.connection,
                                                    addr))
              /\ UNCHANGED <<server_clients, registered, unique_token>>

\* C12: a set_nodelay failure on an accepted connection is only logged: the
\* connection still gets its token, is registered with the poller, added to
\* the Server Context and inserted into the registry, exactly as a
\* connection whose set_nodelay succeeded.
C12_NoDelayFailureOnlyLogged == []C12_NoDelayState /\ [][C12_NoDelayStep]_vars

\* C12 witness: a connection whose set_nodelay failed holds a token, is
\* registered and known to the context, and is about to be inserted.
C12_Witness ==
    /\ pc = "insert"
    /\ ~cur.nodelay
    /\ cur.token \in DOMAIN registered
    /\ cur.token \in server_clients

\* C15 (state part): Client::poll is in flight for at most one session, the
\* session of the current event, and only while the reactor waits for it.
C15_InFlightState ==
    /\ Cardinality(in_flight) <= 1
    /\ in_flight # {} => pc = "client_poll" /\ in_flight = {Tok}
    /\ pc = "client_poll" => in_flight = {Tok}

\* C15 (step part): while a Client::poll is in flight the only step of the
\* reactor is the return of that call: no other event is taken, nothing is
\* accepted, the registry, the context and the poller registrations stay
\* as they are and poll is not called.
C15_InFlightStep ==
    (in_flight # {} /\ ReactorMoves)
        => /\ in_flight' = {}
           /\ pc' \in {"iter", "td_remove"}
           /\ DOMAIN connections' = DOMAIN connections
           /\ UNCHANGED <<server_clients, registered, unique_token, events,
                          backlog, pending, accepted>>

\* C15: at most one Client::poll is in flight at any time: the reactor
\* awaits its completion before it handles the next event, accepts, changes
\* the registry or polls again, so the loop body is never reentered.
C15_OnePollInFlight == []C15_InFlightState /\ [][C15_InFlightStep]_vars

\* C15 witness: a Client::poll is awaited while a later event of the batch
\* and a queued connection are waiting for the reactor.
C15_Witness ==
    /\ pc = "client_poll"
    /\ in_flight = {Tok}
    /\ idx < Len(events)
    /\ backlog # <<>>

\* C16: a readiness event is routed only to a session whose token the Server
\* Context knows: the poller registration, add_client and the registry
\* insertion of a connection are all complete before the reactor handles
\* an event for its token, also when the notification was queued earlier.
C16_RoutedIsKnown ==
    /\ \A t \in DOMAIN connections :
           t \in server_clients /\ t \in DOMAIN registered
    /\ \A t \in in_flight :
           /\ t \in server_clients
           /\ t \in DOMAIN registered
           /\ t \in DOMAIN connections
    /\ pc \in {"register", "add_client", "insert"}
          => /\ in_flight = {}
             /\ Tok = SERVER
             /\ cur.token \notin DOMAIN connections
             /\ \A k \in DOMAIN events : events[k] # cur.token
             /\ \A k \in DOMAIN handled : handled[k] # cur.token

\* C16 witness: the notification of a connection is already queued while
\* the connection is registered but not yet inserted.
C16_Witness ==
    /\ pc = "insert"
    /\ cur.token \in pending
    /\ cur.token \in server_clients
    /\ cur.token \notin DOMAIN connections

\* The sockets of the sessions whose teardown is complete.
TornSockets == {accepted[i].connection : i \in {k \in DOMAIN accepted :
                                                   accepted[k].token \in torn}}

\* C18: each time the reactor is about to call poll, the tokens registered
\* with the poller are the listener token 0 and the keys of the registry;
\* the listener stays registered, for read interest, the whole run; a
\* connection is registered for read and write interest before it enters
\* the registry; and the socket of a torn-down session is closed only
\* after it was deregistered.
C18_PollerMatchesRegistry ==
    /\ pc = "poll" => DOMAIN registered = {SERVER} \cup DOMAIN connections
    /\ SERVER \in DOMAIN registered
    /\ registered[SERVER] = {"READABLE"}
    /\ SERVER \notin DOMAIN connections
    /\ \A t \in DOMAIN connections :
           t \in DOMAIN registered
               /\ registered[t] = {"READABLE", "WRITABLE"}
    /\ pc \in {"add_client", "insert"}
          => /\ cur.token \in DOMAIN registered
             /\ registered[cur.token] = {"READABLE", "WRITABLE"}
    /\ closed_sockets = TornSockets
    /\ \A i \in DOMAIN accepted :
           accepted[i].connection \in closed_sockets
               => accepted[i].token \notin DOMAIN registered
    /\ \A t \in DOMAIN connections :
           connections[t].connection \notin closed_sockets

\* C18 witness: at an iteration boundary one session has been torn down
\* and its socket closed, and another is registered and in the registry.
C18_Witness ==
    /\ pc = "poll"
    /\ closed_sockets # {}
    /\ DOMAIN connections # {}
    /\ DOMAIN registered = {SERVER} \cup DOMAIN connections

\* C19 (state part): the counter is the listener token plus one plus the
\* number of connections accepted so far, each connection taken from the
\* accept queue was given the next token, and the first token is 1.
C19_CounterState ==
    /\ unique_token = SERVER + 1 + Len(accepted)
    /\ Len(accepted) + Len(backlog) = arrivals
    /\ \A i \in DOMAIN Minted : Minted[i] = SERVER + i

\* C19 (step part): a step that changes the counter is the accept of one
\* connection and adds exactly one; every other step leaves it unchanged.
C19_CounterStep ==
    /\ unique_token' # unique_token
          => /\ pc = "accept"
             /\ pc' = "register"
             /\ backlog # <<>>
             /\ backlog' = Tail(backlog)
             /\ unique_token' = unique_token + 1
             /\ cur'.token = unique_token
             /\ cur'.connection = Head(backlog).id
    /\ (pc = "accept" /\ pc' = "register") => unique_token' = unique_token + 1
    /\ outcome' \in {"interrupted", "would_block", "absent", "routed",
                     "processed", "closed", "torn_down"}
          => unique_token' = unique_token

\* C19: the token counter changes only in an accept cycle: it is
\* incremented by exactly one, once, for each successfully accepted
\* connection, the first token minted being the listener token plus one;
\* interrupted polls, would-block accepts, client events, events for absent
\* tokens and teardowns leave it unchanged.
C19_CounterOnlyInAccept == []C19_CounterState /\ [][C19_CounterStep]_vars

\* C19 witness: after two accepts, a teardown and an interrupted poll the
\* counter is the listener token plus three.
C19_Witness ==
    /\ pc = "poll"
    /\ outcome = "interrupted"
    /\ torn # {}
    /\ Len(accepted) = 2
    /\ unique_token = SERVER + 3

\* C20: the reactor never holds two borrows of one session cell: the
\* mutable borrow taken to process an event is held while Client::poll is
\* awaited and released before the teardown removes the entry and borrows
\* the cell again to deregister, so no borrow_mut of the reactor panics.
C20_NoDoubleBorrow ==
    /\ result # "panicked"
    /\ outcome # "already_borrowed"
    /\ Cardinality(borrows) <= 1
    /\ pc = "client_poll" => borrows = {Tok}
    /\ pc # "client_poll" => borrows = {}
    /\ pc \in {"iter", "td_dereg"} /\ idx <= Len(events)
          => ~borrow_mut(borrows, Tok).panic

\* C20 witness: a session was borrowed for Client::poll, closed, removed,
\* borrowed again and deregistered, and the reactor is still running.
C20_Witness ==
    /\ pc = "iter"
    /\ outcome = "torn_down"
    /\ torn # {}
    /\ borrows = {}
    /\ result = "running"

\* Connection c waits in the accept queue of the listener.
Queued(c) == \E i \in DOMAIN backlog : backlog[i].id = c

\* Connection c is the connection of a session held by the registry.
Inserted(c) == \E t \in DOMAIN connections : connections[t].connection = c

\* C17: as long as main does not return an error and every awaited
\* Client::poll returns, a connection queued on the listener is eventually
\* accepted and inserted into the registry, although the listener's
\* readiness is notified once per transition and not once per connection.
C17_QueuedEventuallyInserted ==
    \A c \in 1..MaxConns : Queued(c) ~> (Inserted(c) \/ pc = "done")

\* C17 witness: one listener notification was delivered, nothing more is
\* pending, a connection joined the queue during the drain without a new
\* notification, and the drain has inserted it.
C17_Witness ==
    /\ pc = "accept"
    /\ events = <<SERVER>>
    /\ pending = {}
    /\ drain.active
    /\ drain.arrived >= 1
    /\ drain.count = drain.start + drain.arrived
    /\ backlog = <<>>
    /\ \A c \in 1..arrivals : Inserted(c)

\* A step in which the console thread or the remote-administration task
\* fails.
AuxFails ==
    \/ cpc # "panicked" /\ cpc' = "panicked"
    \/ rcon # "failed" /\ rcon' = "failed"

\* The reactor can take a step of its loop: a poll return, or the next step
\* of the event it is handling.
ReactorCanStep ==
    ENABLED (Progress \/ PollInterrupted \/ \E batch \in Batches : PollOk(batch))

\* C11 (state part): with an auxiliary unit failed, the reactor is still
\* running unless main returned one of its own fatal errors, and all
\* sessions in the registry are still registered and known to the context.
C11_AuxFailureState ==
    (cpc = "panicked" \/ rcon = "failed")
        => /\ result # "panicked"
           /\ (pc = "done") <=> (outcome \in FatalOutcomes)
           /\ result = ErrorOf(outcome)
           /\ pc # "done" => ReactorCanStep
           /\ pc = "poll" /\ pending # {}
                 => ENABLED (\E batch \in Batches : PollOk(batch))
           /\ \A t \in DOMAIN connections :
                  t \in server_clients /\ t \in DOMAIN registered

\* C11 (step part): the step in which an auxiliary unit fails changes
\* nothing of the reactor, the registry, the context, the poller or the
\* sockets, and does not stop the other auxiliary unit.
C11_AuxFailureStep ==
    AuxFails
        => /\ UNCHANGED <<reactorVars, kernelVars, historyVars, cellVars>>
           /\ cpc' # cpc => rcon' = rcon
           /\ rcon' # rcon => cpc' = cpc

\* C11: a fatal failure inside an auxiliary unit (a failed read of standard
\* input in the console thread, a failure of the remote-administration
\* task) ends only that thread or task: the reactor keeps polling and
\* routing, and the registry and the connections are unaffected.
C11_AuxFailureContained ==
    []C11_AuxFailureState /\ [][C11_AuxFailureStep]_vars

\* C11 witness: the console thread and the remote-administration task have
\* both failed and the reactor, with two sessions in the registry, is
\* processing an event of one of them.
C11_Witness ==
    /\ cpc = "panicked"
    /\ rcon = "failed"
    /\ pc = "client_poll"
    /\ outcome = "routed"
    /\ Cardinality(DOMAIN connections) = 2

\* Positions of main before the reactor loop.
StartupPcs == {"limits", "setup", "spawn_console", "spawn_rcon"}

\* The reactor loop has been entered (main may have returned since).
LoopEntered ==
    /\ pc \notin StartupPcs
    /\ ~(pc = "done" /\ outcome \in {"rlimit_failed", "setup_failed"})

\* C13 (state part): each auxiliary unit has been started at most once,
\* only if its flag is set, and exactly then once the loop is entered; a
\* disabled console has read nothing and forwarded nothing, and a disabled
\* remote-administration task does not exist.
C13_AuxStartState ==
    /\ calls.console <= 1
    /\ calls.rcon <= 1
    /\ calls.console = 1 => use_console
    /\ calls.rcon = 1 => rcon_enabled
    /\ (calls.console = 1) <=> (cpc # "off")
    /\ (calls.rcon = 1) <=> (rcon # "off")
    /\ LoopEntered
          => /\ calls.console = (IF use_console THEN 1 ELSE 0)
             /\ calls.rcon = (IF rcon_enabled THEN 1 ELSE 0)
    /\ pc \in StartupPcs => outcome = "started"
    /\ ~use_console
          => cpc = "off" /\ out = "" /\ lines_read = <<>> /\ forwarded = <<>>
    /\ ~rcon_enabled => rcon = "off"

\* C13 (step part): an auxiliary unit is started only at its place in the
\* startup, before poll was ever called, and standard input is consumed
\* only by a console thread that was started.
C13_AuxStartStep ==
    /\ calls'.console # calls.console
          => /\ pc = "spawn_console"
             /\ outcome = "started"
             /\ use_console
             /\ calls'.console = calls.console + 1
    /\ calls'.rcon # calls.rcon
          => /\ pc = "spawn_rcon"
             /\ outcome = "started"
             /\ rcon_enabled
             /\ calls'.rcon = calls.rcon + 1
    /\ stdin' # stdin => use_console /\ calls.console = 1
    /\ UNCHANGED <<use_console, rcon_enabled>>

\* C13: the console thread is started if and only if commands.use_console
\* is set and the remote-administration task if and only if rcon.enabled is
\* set, each at most once and before the reactor's first poll; when the
\* flag is clear no line of standard input is consumed, respectively no
\* remote-administration listener exists.
C13_AuxStartedIffEnabled == []C13_AuxStartState /\ [][C13_AuxStartStep]_vars

\* C13 witness: with the console enabled and remote administration disabled
\* the reactor is polling, the console thread has forwarded a command and
\* there is no remote-administration task.
C13_Witness ==
    /\ use_console
    /\ ~rcon_enabled
    /\ pc = "poll"
    /\ outcome = "interrupted"
    /\ calls = [adjust |-> 1, console |-> 1, rcon |-> 0]
    /\ forwarded # <<>>
    /\ rcon = "off"

\* C14 (state part): the limit adjustment has run exactly once when
\* anything else of main runs, in particular before the listener is
\* registered with the poller; after it the soft limit is the hard limit;
\* if it failed, main is over and nothing was set up or started.
C14_LimitsState ==
    /\ calls.adjust <= 1
    /\ pc # "limits" => calls.adjust = 1
    /\ pc = "limits" => calls.adjust = 0 /\ registered = <<>>
    /\ outcome = "rlimit_failed"
          => /\ pc = "done"
             /\ result = "panicked"
             /\ registered = <<>>
             /\ events = <<>>
             /\ calls.console = 0
             /\ calls.rcon = 0
    /\ (pc # "limits" /\ outcome # "rlimit_failed")
          => /\ rlimit.rlim_cur = rlimit.rlim_max
             /\ limit_before <= rlimit.rlim_max

\* C14 (step part): the adjustment raises a soft limit below the hard limit
\* to the hard limit and changes nothing else; nothing else changes the
\* limits; and main, once over, stays over.
C14_LimitsStep ==
    /\ (pc = "limits" /\ pc' = "setup")
          => /\ rlimit'.rlim_cur = rlimit.rlim_max
             /\ rlimit'.rlim_max = rlimit.rlim_max
             /\ limit_before' = rlimit.rlim_cur
             /\ rlimit.rlim_cur = rlimit.rlim_max => rlimit' = rlimit
    /\ (pc = "limits" /\ pc' # "setup")
          => pc' = "done" /\ outcome' = "rlimit_failed" /\ rlimit' = rlimit
    /\ rlimit' # rlimit
          => pc = "limits" /\ rlimit.rlim_cur < rlimit.rlim_max
    /\ pc = "done" => pc' = "done"

\* C14: adjust_file_descriptor_limits runs once, before the poller is
\* created: a soft limit below the hard limit is raised to the hard limit,
\* the hard limit being unchanged; equal limits stay as they are; and if
\* the query or the update fails, startup aborts and the reactor loop never
\* starts.
C14_LimitsTunedOnce == []C14_LimitsState /\ [][C14_LimitsStep]_vars

\* C14 witness: the soft limit was below the hard limit, has been raised to
\* it, and the reactor loop is running.
C14_Witness ==
    /\ pc = "poll"
    /\ calls.adjust = 1
    /\ limit_before < rlimit.rlim_max
    /\ rlimit.rlim_cur = rlimit.rlim_max
    /\ SERVER \in DOMAIN registered

====
